---- MODULE Spec2Model ----
(***************************************************************************)
(* The channel-and-source lifecycle supervisor of the Decision Engine      *)
(* (decisionengine/framework/engine/DecisionEngine.py) as a state machine. *)
(*                                                                         *)
(* RPC request threads (ThreadingMixIn: one thread per request) run the    *)
(* administrative operations; the serving thread runs service_actions;     *)
(* channel workers and source workers are separate OS processes.  Every    *)
(* operation is cut at the points where it blocks (a lock, a wait_while,   *)
(* a join) or where another thread can observe its effect.                 *)
(*                                                                         *)
(* ChannelWorkers, SourceWorkers, the task manager and the workflow        *)
(* validator are collaborators whose code is outside DecisionEngine.py;    *)
(* they are modelled from their specified contracts.                       *)
(*                                                                         *)
(* A worker object is kept where it is referred to: in its registry, or,   *)
(* once the registry has dropped it, with the threads that still hold a    *)
(* handle to it.  An object nothing refers to is not followed further; if  *)
(* its process is running it runs on, out of the supervisor's reach.       *)
(***************************************************************************)
EXTENDS Integers, Sequences, FiniteSets, TLC

(* ----------------------------- bounds --------------------------------- *)

\* Number of concurrent RPC request threads.
NumThreads == 2

(* ------------------------- program constants -------------------------- *)

\* Python's None, as the value of a timeout ("wait indefinitely").
None == -1

\* global_config.get("shutdown_timeout", 10)
DefaultShutdownTimeout == 10

\* The RPC request threads; service_actions runs on the serving thread.
Threads == 1 .. NumThreads

\* The thread of serve_forever: it accepts the requests, runs service_actions
\* between them, and runs the signal handlers.
MainThread == 0

\* Whatever runs an operation of the supervisor.
Executors == { MainThread } \cup Threads

(* --------------------------- configuration ---------------------------- *)

\* The channel configurations on disk, by configuration name.  "b_cfg"
\* overrides its channel name; "gamma" declares a transform that consumes a
\* product no source produces, so the workflow validator rejects it.
ChannelConfigs ==
    [ alpha |-> [ sources |-> << "srcA" >>, valid |-> TRUE ],
      b_cfg |-> [ channel_name |-> "beta", sources |-> << "srcA", "srcB" >>,
                  valid |-> TRUE ],
      gamma |-> [ sources |-> << "srcA" >>, valid |-> FALSE ] ]

\* channel_config_loader.get_channels(): the loaded configurations, in order.
get_channels == << "alpha", "gamma", "b_cfg" >>

ConfigNames == { get_channels[i] : i \in 1 .. Len(get_channels) }

\* The source identities (routing keys) the configurations declare.
SourceKeys == { "srcA", "srcB" }

\* The names an administrative RPC is called with.
StartNames == ConfigNames \cup { "beta" }
StopNames == { "alpha", "beta" }
KillTimeouts == { None, 0, 1, 2 }

\* The global configurations the supervisor may be constructed with.
GlobalConfigs == { [ logger |-> "cfg" ],
                   [ logger |-> "cfg", shutdown_timeout |-> 3,
                     no_webserver |-> TRUE ] }

Range(s) == { s[i] : i \in 1 .. Len(s) }

(* ------------------------------ state --------------------------------- *)

VARIABLES
    global_config,    \* self.global_config
    channel_workers,  \* self.channel_workers: ordered dict name -> worker
    chan_lock,        \* holder(s) of the channel registry mutex
    source_workers,   \* self.source_workers: key -> worker and refcount
    limbo,            \* source workers the registry dropped, still held
    th                \* per RPC thread: position and local variables

vars == << global_config, channel_workers, chan_lock, source_workers, limbo,
           th >>

\* ProcessingState.State
States == { "BOOT", "ACTIVE", "STEADY", "OFFLINE", "SHUTTINGDOWN", "SHUTDOWN",
            "ERROR" }

\* State.probably_running()
probably_running(s) == s \in { "BOOT", "ACTIVE", "STEADY" }

\* A ChannelWorker: its process, the task manager's state cell and routing
\* keys, and whether the task manager has got through its start-up.
NoWorker == [ status |-> "none", state |-> "BOOT", keys |-> {}, booted |-> FALSE ]
ChannelWorker(keys) ==
    [ status |-> "new", state |-> "BOOT", keys |-> keys, booted |-> FALSE ]

\* A SourceWorker with its refcount; status "none": no entry in the registry.
Absent == [ status |-> "none", state |-> "BOOT", use |-> {} ]

\* Process.is_alive() and Process.exitcode
is_alive(p) == p.status = "alive"
exitcode_is_None(p) == p.status \in { "new", "alive" }

Idle == [ pc |-> "idle", op |-> "", name |-> "", chan |-> "",
          worker |-> NoWorker, mine |-> FALSE, held |-> {}, srcs |-> << >>,
          todo |-> << >>, idx |-> 0, prune |-> {}, given |-> None,
          timeout |-> None,
          rc |-> "", reply |-> "", raised |-> FALSE, closed |-> << >> ]

Init ==
    /\ global_config \in GlobalConfigs
    /\ channel_workers = << >>
    /\ chan_lock = {}
    /\ source_workers = [ k \in SourceKeys |-> Absent ]
    /\ limbo = {}
    /\ th = [ t \in Executors |-> Idle ]

\* A request whose operation has ended is handed back to its client before
\* anything else happens.
NoneDone == \A t \in Executors : th[t].pc # "done"

\* Thread t is at position pc of its operation.
At(t, pc) == NoneDone /\ th[t].pc = pc

\* rpc_stop has not called self.shutdown(): serve_forever is running.
Serving == \A t \in Threads : th[t].op # "stop"

\* serve_forever, between two requests: not shut down, not in a signal handler.
Polling == NoneDone /\ Serving /\ th[MainThread].pc = "idle"

\* serve_forever hands a request to thread t.
Accepted(t) == Polling /\ th[t].pc = "idle"

(* ----------------------- the channel registry ------------------------- *)

\* channel_name in workers
Has(reg, n) == \E i \in 1 .. Len(reg) : reg[i].name = n

\* workers.get(channel); NoWorker for None
Get(reg, n) ==
    IF Has(reg, n)
    THEN reg[CHOOSE i \in 1 .. Len(reg) : reg[i].name = n].worker
    ELSE NoWorker

\* workers[channel_name] = worker: a dict keeps the position of a key it has
PutWorker(reg, n, w) ==
    IF Has(reg, n)
    THEN [ i \in 1 .. Len(reg) |->
             IF reg[i].name = n THEN [ name |-> n, worker |-> w ] ELSE reg[i] ]
    ELSE Append(reg, [ name |-> n, worker |-> w ])

\* A faulty variant: the entry stays in the registry.
entry_kept(reg, n) == reg

\* del workers[channel]
DelWorker(reg, n) == SelectSeq(reg, LAMBDA e : e.name # n)

RegisteredNames(reg) == { reg[i].name : i \in 1 .. Len(reg) }

\* The registry drops the entries of names: a thread inside start_channel
\* whose worker was one of them keeps the object by its local variable.
Displace(thr, reg, names) ==
    [ t \in DOMAIN thr |->
        IF thr[t].mine /\ thr[t].chan \in names
        THEN [ thr[t] EXCEPT !.worker = Get(reg, thr[t].chan), !.mine = FALSE ]
        ELSE thr[t] ]

\* The worker object of a thread inside start_channel (its local `worker`).
WorkerOf(t) == IF th[t].mine THEN Get(channel_workers, th[t].chan) ELSE th[t].worker

(* ------------------------ the source registry ------------------------- *)

\* SourceWorkers.update(channel, source_configs): reuse the worker of an equal
\* identity and add the channel to its refcount, else construct one (not
\* started) and insert it.
update(reg, ch, keys) ==
    [ k \in DOMAIN reg |->
        IF k \notin Range(keys) THEN reg[k]
        ELSE IF reg[k].status = "none"
        THEN [ status |-> "new", state |-> "BOOT", use |-> { ch } ]
        ELSE [ reg[k] EXCEPT !.use = @ \cup { ch } ] ]

\* A source is moved to OFFLINE, joined with a grace window and terminated if
\* still alive: a running process ends cooperatively (exit code 0) or killed.
StopSource(p, kill) ==
    IF p.status = "alive"
    THEN [ p EXCEPT !.status = IF kill THEN "killed" ELSE "exit0",
                    !.state = "OFFLINE" ]
    ELSE [ p EXCEPT !.state = "OFFLINE" ]

\* The sources detaching channel ch from keys takes out of the registry.
Emptied(reg, ch, keys) ==
    { k \in keys : reg[k].status # "none" /\ reg[k].use \ { ch } = {} }

\* SourceWorkers.detach_channel(channel, routing_keys): remove the channel from
\* each referenced source's refcount; a source whose refcount becomes empty is
\* stopped and removed from the registry.
detach_channel(reg, ch, keys) ==
    [ k \in DOMAIN reg |->
        IF k \in Emptied(reg, ch, keys) THEN Absent
        ELSE IF k \in keys THEN [ reg[k] EXCEPT !.use = @ \ { ch } ]
        ELSE reg[k] ]

\* SourceWorkers.prune(channel, routing_keys): same effect as detach_channel.
prune(reg, ch, keys) == detach_channel(reg, ch, keys)

\* SourceWorkers.remove_all(timeout): every source OFFLINE, joined, survivors
\* terminated, the map cleared.
remove_all(reg) == [ k \in DOMAIN reg |-> Absent ]

\* A thread holds the handles update gave it (src_workers) until start_channel
\* returns.
HoldsSources(r) ==
    r.pc \in { "sc_insert", "sc_start", "sc_sources", "sc_wait_active" }

\* The threads whose handle for key k is the registry's worker.
RegistryHolders(k, thr, lim) ==
    { t \in Executors : HoldsSources(thr[t]) /\ k \in thr[t].held }
      \ UNION { o.holders : o \in { x \in lim : x.key = k } }

\* The registry stops and drops the workers of keys `gone`: those a thread
\* still holds a handle to stay with their holders.
Dropped(reg, gone, kill, thr, lim) ==
    lim \cup { [ key |-> k, holders |-> RegistryHolders(k, thr, lim),
                 status |-> StopSource(reg[k], kill).status,
                 state |-> StopSource(reg[k], kill).state ] :
               k \in { g \in gone : RegistryHolders(g, thr, lim) # {} } }

\* Thread t lets go of its source handles.
Release(lim, t) ==
    { [ o EXCEPT !.holders = @ \ { t } ] : o \in { x \in lim : x.holders # { t } } }

\* The source worker thread t's handle for key k refers to.
InLimbo(t, k) == \E o \in limbo : o.key = k /\ t \in o.holders
LimboOf(t, k) == CHOOSE o \in limbo : o.key = k /\ t \in o.holders
SourceOf(t, k) == IF InLimbo(t, k) THEN LimboOf(t, k) ELSE source_workers[k]

(* ------------------------- leaving an RPC ----------------------------- *)

\* The operation has returned `reply` to the RPC dispatcher.
Finish(r, reply) ==
    [ Idle EXCEPT !.pc = "done", !.op = r.op, !.name = r.name,
                  !.given = r.given, !.timeout = r.timeout, !.rc = r.rc, !.reply = reply ]

\* The operation has propagated an exception to the RPC dispatcher.
Raise(r) ==
    [ Idle EXCEPT !.pc = "done", !.op = r.op, !.name = r.name,
                  !.given = r.given, !.timeout = r.timeout, !.rc = r.rc, !.raised = TRUE ]

\* A batch that gives up at the first configuration that fails to start.
abort_on_failure(r, exc) ==
    IF r.op \in { "start_channels", "sighup" }
    THEN IF r.todo # << >> /\ ~exc
         THEN [ Idle EXCEPT !.pc = "sc_update", !.op = r.op,
                            !.name = Head(r.todo), !.todo = Tail(r.todo) ]
         ELSE Finish(r, IF r.op = "sighup" THEN "" ELSE "OK")
    ELSE IF exc THEN Raise(r) ELSE Finish(r, "OK")

\* start_channel has returned (exc = FALSE) or raised (exc = TRUE) to its
\* caller: rpc_start_channel answers "OK" or lets the exception through;
\* start_channels logs the exception and goes on with the next configuration.
\* handle_sighup runs start_channels too, and returns nothing.
StartChannelExit(r, exc) ==
    IF r.op \in { "start_channels", "sighup" }
    THEN IF r.todo # << >>
         THEN [ Idle EXCEPT !.pc = "sc_update", !.op = r.op,
                            !.name = Head(r.todo), !.todo = Tail(r.todo) ]
         ELSE Finish(r, IF r.op = "sighup" THEN "" ELSE "OK")
    ELSE IF exc THEN Raise(r) ELSE Finish(r, "OK")

\* A faulty variant: the metrics endpoint is exited whatever the configuration.
metrics_always_exited(cfg) ==
    << "reaper_stop", "dataspace.close", "cherrypy.engine.exit", "stop_queue_logger" >>

\* rpc_stop after stop_channels: the reaper, the data space, the metrics
\* endpoint unless no_webserver is set, the logging queue.
after_stop_channels(cfg) ==
    << "reaper_stop", "dataspace.close" >>
      \o (IF "no_webserver" \in DOMAIN cfg /\ cfg.no_webserver THEN << >>
          ELSE << "cherrypy.engine.exit" >>)
      \o << "stop_queue_logger" >>

\* stop_channels has returned to its caller: rpc_stop_channels answers,
\* rpc_stop goes on to answer "OK", handle_sighup goes on with start_channels.
StopChannelsExit(r) ==
    IF r.op = "stop"
    THEN [ Finish(r, "OK") EXCEPT
             !.closed = r.closed \o << "stop_channels" >> \o after_stop_channels(global_config) ]
    ELSE IF r.op = "sighup"
    THEN IF get_channels = << >> THEN Finish(r, "")
         ELSE [ Idle EXCEPT !.pc = "sc_update", !.op = r.op,
                            !.name = Head(get_channels),
                            !.todo = Tail(get_channels) ]
    ELSE Finish(r, "All channels stopped.")

\* The RPC thread ends; the next request gets a thread of its own.  After
\* the answer of rpc_stop the server is gone.
Return(t) ==
    /\ th[t].pc = "done"
    /\ th[t].op # "stop"
    /\ th' = [ th EXCEPT ![t] = Idle ]
    /\ UNCHANGED << global_config, channel_workers, chan_lock, source_workers,
                    limbo >>

(* --------------------------- start_channel ---------------------------- *)

\* channel_config_loader.load_channel(name) -> (success, result)
load_channel(n) ==
    IF n \in ConfigNames
    THEN [ success |-> TRUE, result |-> n ]
    ELSE [ success |-> FALSE, result |-> "Failed to load channel " \o n ]

\* A faulty variant: the registry check never finds the channel.
NeverRunning(reg, n) == FALSE

\* The registry check of rpc_start_channel.
IsRunning(reg, n) == Has(reg, n)

\* rpc_start_channel up to the call of start_channel: the check under the
\* channel registry lock, then the configuration is loaded.
rpc_start_channel(t, n) ==
    /\ Accepted(t)
    /\ chan_lock = {}
    /\ LET r == [ Idle EXCEPT !.op = "start_channel", !.name = n ]
       IN  th' = [ th EXCEPT ![t] =
                     IF IsRunning(channel_workers, n)
                     THEN Finish(r, "ERROR, channel " \o n \o " is running")
                     ELSE IF ~load_channel(n).success
                     THEN Finish(r, load_channel(n).result)
                     ELSE [ r EXCEPT !.pc = "sc_update" ] ]
    /\ UNCHANGED << global_config, channel_workers, chan_lock, source_workers,
                    limbo >>

\* rpc_start_channels / start_channels: every loaded configuration in turn.
rpc_start_channels(t) ==
    /\ Accepted(t)
    /\ th' = [ th EXCEPT ![t] =
                 IF get_channels = << >>
                 THEN Finish([ Idle EXCEPT !.op = "start_channels" ], "OK")
                 ELSE [ Idle EXCEPT !.pc = "sc_update", !.op = "start_channels",
                                    !.name = Head(get_channels),
                                    !.todo = Tail(get_channels) ] ]
    /\ UNCHANGED << global_config, channel_workers, chan_lock, source_workers,
                    limbo >>

\* channel_config.get("channel_name", channel_name)
ChannelName(cfg, n) ==
    IF "channel_name" \in DOMAIN cfg THEN cfg.channel_name ELSE n

\* validated_workflow(channel_name, src_workers, channel_config, logger)
\* raises for a configuration the validator rejects.
validated_workflow(cfg) == cfg.valid

\* A faulty variant: the task manager is given no queue to subscribe to.
no_queue_info(cfg) == {}

\* queue_info = [(worker.queue.name, worker.key) for worker in src_workers]:
\* the routing keys the task manager subscribes to.
queue_info(cfg) == Range(cfg.sources)

\* A faulty variant: the result of the validation is ignored.
start_channel_build_unvalidated(r, cfg, channel_name) ==
    [ r EXCEPT !.pc = "sc_insert", !.chan = channel_name,
               !.worker = ChannelWorker(Range(cfg.sources)),
               !.held = Range(cfg.sources), !.srcs = cfg.sources ]

\* An exception of validated_workflow leaves start_channel before the task
\* manager and the ChannelWorker are built; else the thread goes on with the
\* worker it has built and the handles update returned.
start_channel_build(r, cfg, channel_name) ==
    IF validated_workflow(cfg)
    THEN [ r EXCEPT !.pc = "sc_insert", !.chan = channel_name,
                    !.worker = ChannelWorker(queue_info(cfg)),
                    !.held = Range(cfg.sources), !.srcs = cfg.sources ]
    ELSE StartChannelExit(r, TRUE)

\* start_channel, from its entry to the construction of the ChannelWorker:
\* the source registry is updated, then the workflow is validated.
start_channel_update(t) ==
    LET r == th[t]
        cfg == ChannelConfigs[r.name]
        channel_name == ChannelName(cfg, r.name)
    IN  /\ At(t, "sc_update")
        /\ source_workers' = update(source_workers, channel_name, cfg.sources)
        /\ th' = [ th EXCEPT ![t] = start_channel_build(r, cfg, channel_name) ]
        /\ UNCHANGED << global_config, channel_workers, chan_lock, limbo >>

\* with self.channel_workers.access() as workers: workers[channel_name] = worker
start_channel_insert(t) ==
    LET r == th[t] IN
    /\ At(t, "sc_insert")
    /\ chan_lock = {}
    /\ channel_workers' = PutWorker(channel_workers, r.chan, r.worker)
    /\ th' = [ Displace(th, channel_workers, { r.chan })
                 EXCEPT ![t] = [ r EXCEPT !.pc = "sc_start", !.mine = TRUE,
                                          !.worker = NoWorker ] ]
    /\ UNCHANGED << global_config, chan_lock, source_workers, limbo >>

\* Process.start(): a process that was terminated before it was started
\* never runs.
StartProcess(p) == IF p.status = "new" THEN [ p EXCEPT !.status = "alive" ] ELSE p

\* worker.start()
start_channel_start(t) ==
    LET r == th[t] IN
    /\ At(t, "sc_start")
    /\ IF r.mine
       THEN /\ channel_workers' = PutWorker(channel_workers, r.chan,
                                            StartProcess(WorkerOf(t)))
            /\ th' = [ th EXCEPT ![t].pc = "sc_sources" ]
       ELSE /\ channel_workers' = channel_workers
            /\ th' = [ th EXCEPT ![t].pc = "sc_sources",
                                 ![t].worker = StartProcess(@) ]
    /\ UNCHANGED << global_config, chan_lock, source_workers, limbo >>

\* worker.wait_while(ProcessingState.State.BOOT) has returned
LeftBoot(p) == p.state # "BOOT"

\* worker.wait_while(BOOT), then one iteration of "start any sources that are
\* not yet alive": alive, continue; exit code 0, raise; else start.  Starting
\* a process that has already run raises too.
start_channel_sources(t) ==
    LET r == th[t]
        k == Head(r.srcs)
        next == [ r EXCEPT !.srcs = Tail(@),
                           !.pc = IF Tail(r.srcs) = << >> THEN "sc_wait_active"
                                  ELSE "sc_sources" ]
    IN  /\ At(t, "sc_sources")
        /\ LeftBoot(WorkerOf(t))
        /\ IF r.srcs = << >>
           THEN /\ th' = [ th EXCEPT ![t].pc = "sc_wait_active" ]
                /\ UNCHANGED << source_workers, limbo >>
           ELSE IF is_alive(SourceOf(t, k))
           THEN /\ th' = [ th EXCEPT ![t] = next ]
                /\ UNCHANGED << source_workers, limbo >>
           ELSE IF SourceOf(t, k).status = "new"
           THEN /\ th' = [ th EXCEPT ![t] = next ]
                /\ IF InLimbo(t, k)
                   THEN /\ limbo' = (limbo \ { LimboOf(t, k) })
                                      \cup { [ LimboOf(t, k) EXCEPT !.status = "alive" ] }
                        /\ UNCHANGED source_workers
                   ELSE /\ source_workers' = [ source_workers EXCEPT ![k].status = "alive" ]
                        /\ UNCHANGED limbo
           ELSE /\ th' = [ th EXCEPT ![t] = StartChannelExit(r, TRUE) ]
                /\ limbo' = Release(limbo, t)
                /\ UNCHANGED source_workers
        /\ UNCHANGED << global_config, channel_workers, chan_lock >>

\* worker.wait_while(ProcessingState.State.ACTIVE), then start_channel returns
start_channel_wait_active(t) ==
    LET r == th[t] IN
    /\ At(t, "sc_wait_active")
    /\ WorkerOf(t).state # "ACTIVE"
    /\ th' = [ th EXCEPT ![t] = StartChannelExit(r, FALSE) ]
    /\ limbo' = Release(limbo, t)
    /\ UNCHANGED << global_config, channel_workers, chan_lock, source_workers >>

(* --------------------------- worker processes ------------------------- *)

\* A channel worker object is in the registry (entry i) or with a thread.
InRegistry == { [ reg |-> TRUE, at |-> i ] : i \in 1 .. Len(channel_workers) }
WithThread == { [ reg |-> FALSE, at |-> t ] :
                t \in { u \in Executors : th[u].worker.status # "none" } }
\* Every place a channel worker object can be at.
Places == { [ reg |-> TRUE, at |-> i ] : i \in 1 .. Len(get_channels) }
            \cup { [ reg |-> FALSE, at |-> t ] : t \in Executors }
WorkerAt(l) == IF l.reg THEN channel_workers[l.at].worker ELSE th[l.at].worker

\* The worker at l becomes w.
Becomes(l, w) ==
    /\ IF l.reg
       THEN /\ channel_workers' = [ channel_workers EXCEPT ![l.at].worker = w ]
            /\ UNCHANGED th
       ELSE /\ th' = [ th EXCEPT ![l.at].worker = w ]
            /\ UNCHANGED channel_workers
    /\ UNCHANGED << global_config, chan_lock, source_workers, limbo >>

\* The task manager leaves BOOT once it listens on its source queues.
ChannelBooted(l) ==
    /\ NoneDone
    /\ l \in InRegistry \cup WithThread
    /\ is_alive(WorkerAt(l)) /\ WorkerAt(l).state = "BOOT"
    /\ Becomes(l, [ WorkerAt(l) EXCEPT !.state = "ACTIVE", !.booted = TRUE ])

\* ACTIVE -> STEADY after a completed pass, STEADY -> ACTIVE on new data.
ChannelCycles(l) ==
    /\ NoneDone
    /\ l \in InRegistry \cup WithThread
    /\ is_alive(WorkerAt(l)) /\ WorkerAt(l).state \in { "ACTIVE", "STEADY" }
    /\ Becomes(l, [ WorkerAt(l) EXCEPT
                      !.state = IF @ = "ACTIVE" THEN "STEADY" ELSE "ACTIVE" ])

\* A fatal module failure: the state cell flips to ERROR and the process ends.
ChannelFaults(l) ==
    /\ NoneDone
    /\ l \in InRegistry \cup WithThread
    /\ is_alive(WorkerAt(l)) /\ probably_running(WorkerAt(l).state)
    /\ Becomes(l, [ WorkerAt(l) EXCEPT !.state = "ERROR", !.status = "exited" ])

\* Cooperative stop: the task manager observes OFFLINE, passes SHUTTINGDOWN
\* and reaches SHUTDOWN, and the process exits.  A task manager taken offline
\* during its start-up does not get there.
ChannelShutsDown(l) ==
    /\ NoneDone
    /\ l \in InRegistry \cup WithThread
    /\ is_alive(WorkerAt(l)) /\ WorkerAt(l).state = "OFFLINE"
    /\ WorkerAt(l).booted
    /\ Becomes(l, [ WorkerAt(l) EXCEPT !.state = "SHUTDOWN", !.status = "exited" ])

\* A source process ends with exit code 0: its acquire ran only once, or it
\* observed OFFLINE in its state cell.
SourceCompletes(k) ==
    /\ NoneDone
    /\ is_alive(source_workers[k])
    /\ source_workers' = [ source_workers EXCEPT ![k].status = "exit0" ]
    /\ UNCHANGED << global_config, channel_workers, chan_lock, limbo, th >>

SourceInLimboCompletes(k, holders) ==
    /\ NoneDone
    /\ \E o \in limbo :
          /\ o.key = k /\ o.holders = holders
          /\ is_alive(o)
          /\ limbo' = (limbo \ { o }) \cup { [ o EXCEPT !.status = "exit0" ] }
    /\ UNCHANGED << global_config, channel_workers, chan_lock, source_workers,
                    th >>

(* -------------------------- service_actions -------------------------- *)

\* A faulty variant: the loop of service_actions detaches every channel,
\* running or not.
RECURSIVE every_channel_detached(_, _, _)
every_channel_detached(reg, workers, i) ==
    IF i > Len(workers) THEN reg
    ELSE every_channel_detached(
             detach_channel(reg, workers[i].name, workers[i].worker.keys),
             workers, i + 1)

\* A faulty variant: the loop of service_actions skips every channel.
every_channel_skipped(reg, workers, i) == reg

\* The body of the loop of service_actions for the entries from i on: a
\* channel that is not probably running is detached from its sources.
RECURSIVE DetachFrom(_, _, _)
DetachFrom(reg, workers, i) ==
    IF i > Len(workers) THEN reg
    ELSE IF probably_running(workers[i].worker.state)
    THEN DetachFrom(reg, workers, i + 1)
    ELSE DetachFrom(detach_channel(reg, workers[i].name, workers[i].worker.keys),
                    workers, i + 1)

\* The keys registry `before` has and registry `after` has not.
Gone(before, after) ==
    { k \in DOMAIN before : before[k].status # "none" /\ after[k].status = "none" }

\* service_actions: one pass of the serving thread's housekeeping, under the
\* channel registry lock.
service_actions(kill) ==
    LET after == DetachFrom(source_workers, channel_workers, 1) IN
    /\ Polling
    /\ chan_lock = {}
    /\ source_workers' = after
    /\ limbo' = Dropped(source_workers, Gone(source_workers, after), kill, th, limbo)
    /\ UNCHANGED << global_config, channel_workers, chan_lock, th >>

(* ------------------- rm_channel and stop_worker ----------------------- *)

\* A faulty variant: the configured shutdown_timeout is not looked at.
default_timeout_only(cfg) == DefaultShutdownTimeout

\* self.global_config.get("shutdown_timeout", 10)
shutdown_timeout(cfg) ==
    IF "shutdown_timeout" \in DOMAIN cfg THEN cfg.shutdown_timeout
    ELSE DefaultShutdownTimeout

\* worker.task_manager.take_offline(), for a worker that is alive
take_offline(p) == IF is_alive(p) THEN [ p EXCEPT !.state = "OFFLINE" ] ELSE p

\* worker.terminate(): the exit code is not None afterwards
terminate(p) == [ p EXCEPT !.status = "killed" ]

\* A faulty variant: stop_worker reports Clean whatever the exit code.
AlwaysClean(p) == "Clean"

\* The StopState stop_worker returns after the join.
StopState(p) == IF exitcode_is_None(p) THEN "Terminated" ELSE "Clean"

\* A faulty variant: stop_worker leaves the process as the join found it.
left_as_joined(p) == p

\* The worker when stop_worker returns.
AfterStop(p) == IF exitcode_is_None(p) THEN terminate(p) ELSE p

\* worker.join(timeout) returns: the process is not running, or the timeout
\* (if any) has elapsed.
Joined(p, timeout) == ~is_alive(p) \/ timeout # None

\* A faulty variant: the plural from one second on.
suffix_from_one(maybe_timeout) == IF maybe_timeout >= 1 THEN "s" ELSE ""

\* "s" if maybe_timeout > 1 else ""
suffix(maybe_timeout) == IF maybe_timeout > 1 THEN "s" ELSE ""

\* The string rpc_rm_channel returns for a StopState.
rm_reply(channel, rc, maybe_timeout) ==
    IF rc = "NotFound" THEN "No channel found with the name " \o channel \o "."
    ELSE IF rc = "Terminated"
    THEN IF maybe_timeout = 0 THEN "Channel " \o channel \o " has been killed."
         ELSE "Channel " \o channel \o " has been killed due to shutdown timeout ("
              \o ToString(maybe_timeout) \o " second" \o suffix(maybe_timeout) \o ")."
    ELSE "Channel " \o channel \o " stopped cleanly."

\* rpc_rm_channel after rm_channel has returned rc; None > 1 is a TypeError.
RmExit(r, rc) ==
    IF rc = "Terminated" /\ r.timeout = None
    THEN Raise([ r EXCEPT !.rc = rc ])
    ELSE Finish([ r EXCEPT !.rc = rc ], rm_reply(r.name, rc, r.timeout))

\* A faulty variant: nothing is handed to prune.
nothing_to_prune(worker) == {}

\* sources_to_prune = worker.task_manager.routing_keys
sources_to_prune(worker) == worker.keys

\* rpc_rm_channel / rm_channel up to the join of stop_worker: the lock is
\* taken, the worker looked up and, if alive, taken offline.
rm_channel(t, op, channel, given, maybe_timeout) ==
    LET r == [ Idle EXCEPT !.op = op, !.name = channel, !.given = given,
                           !.timeout = maybe_timeout ]
        worker == Get(channel_workers, channel)
    IN  /\ Accepted(t)
        /\ chan_lock = {}
        /\ IF ~Has(channel_workers, channel)
           THEN /\ th' = [ th EXCEPT ![t] = RmExit(r, "NotFound") ]
                /\ UNCHANGED << channel_workers, chan_lock >>
           ELSE /\ th' = [ th EXCEPT ![t] = [ r EXCEPT !.pc = "rm_join",
                                                       !.prune = sources_to_prune(worker) ] ]
                /\ channel_workers' = PutWorker(channel_workers, channel,
                                                take_offline(worker))
                /\ chan_lock' = { t }
        /\ UNCHANGED << global_config, source_workers, limbo >>

rpc_stop_channel(t, channel) == rm_channel(t, "stop_channel", channel, None, None)

rpc_kill_channel(t, channel, timeout) ==
    rm_channel(t, "kill_channel", channel, timeout,
               IF timeout = None THEN shutdown_timeout(global_config) ELSE timeout)

\* The rest of rm_channel: the join returns, a worker without an exit code is
\* terminated, the entry is deleted, the sources are pruned, the lock released.
rm_channel_stop(t, kill) ==
    LET r == th[t]
        worker == Get(channel_workers, r.name)
    IN  /\ At(t, "rm_join")
        /\ Joined(worker, r.timeout)
        /\ channel_workers' = DelWorker(channel_workers, r.name)
        /\ source_workers' = prune(source_workers, r.name, r.prune)
        /\ limbo' = Dropped(source_workers, Emptied(source_workers, r.name, r.prune),
                            kill, th, limbo)
        /\ th' = [ Displace(th, PutWorker(channel_workers, r.name, AfterStop(worker)),
                            { r.name })
                     EXCEPT ![t] = RmExit(r, StopState(worker)) ]
        /\ chan_lock' = {}
        /\ UNCHANGED global_config

(* --------------------------- stop_channels ---------------------------- *)

\* rpc_stop_channels / stop_channels up to the first join: the lock is taken,
\* the countdown created and the first worker, if alive, taken offline.
rpc_stop_channels(t) ==
    LET r == [ Idle EXCEPT !.op = "stop_channels",
                           !.timeout = shutdown_timeout(global_config) ]
    IN  /\ Accepted(t)
        /\ chan_lock = {}
        /\ chan_lock' = { t }
        /\ th' = [ th EXCEPT ![t] = [ r EXCEPT !.pc = "stc_join", !.idx = 1 ] ]
        /\ channel_workers' =
             IF channel_workers = << >> THEN channel_workers
             ELSE [ channel_workers EXCEPT ![1].worker = take_offline(@) ]
        /\ UNCHANGED << global_config, source_workers, limbo >>

\* stop_channels, called by rpc_stop or handle_sighup, up to the first join.
stop_channels(t) ==
    /\ At(t, "stop_channels")
    /\ chan_lock = {}
    /\ chan_lock' = { t }
    /\ th' = [ th EXCEPT ![t].pc = "stc_join", ![t].idx = 1,
                         ![t].timeout = shutdown_timeout(global_config) ]
    /\ channel_workers' =
         IF channel_workers = << >> THEN channel_workers
         ELSE [ channel_workers EXCEPT ![1].worker = take_offline(@) ]
    /\ UNCHANGED << global_config, source_workers, limbo >>

\* rpc_stop up to the call of stop_channels: self.shutdown() ends serve_forever.
rpc_stop(t) ==
    /\ Accepted(t)
    /\ th' = [ th EXCEPT ![t] = [ Idle EXCEPT !.op = "stop", !.pc = "stop_channels",
                                                !.closed = << "shutdown" >> ] ]
    /\ UNCHANGED << global_config, channel_workers, chan_lock, source_workers,
                    limbo >>

\* handle_sighup up to the call of stop_channels: the signal handler runs on
\* the main thread, between two polls of serve_forever.
handle_sighup ==
    /\ Polling
    /\ th' = [ th EXCEPT ![MainThread] =
                 [ Idle EXCEPT !.op = "sighup", !.pc = "stop_channels" ] ]
    /\ UNCHANGED << global_config, channel_workers, chan_lock, source_workers,
                    limbo >>

\* One iteration of the loop of stop_channels: the join on the current worker
\* returns with `left` of the countdown remaining, and a worker without an
\* exit code is terminated; the next worker, if alive, is taken offline.
\* After the last worker: workers.clear() and the lock is released.
stop_channels_stop(t, left) ==
    LET r == th[t]
        i == r.idx
        worker == channel_workers[i].worker
        stopped == [ channel_workers EXCEPT ![i].worker = AfterStop(worker) ]
    IN  /\ At(t, "stc_join")
        /\ IF i > Len(channel_workers)
           THEN /\ left = r.timeout
                /\ channel_workers' = << >>
                /\ th' = [ Displace(th, channel_workers, RegisteredNames(channel_workers))
                             EXCEPT ![t] = [ r EXCEPT !.pc = "stc_remove_all" ] ]
                /\ chan_lock' = {}
           ELSE /\ left \in 0 .. r.timeout
                /\ is_alive(worker) => left = 0
                /\ channel_workers' =
                     IF i < Len(channel_workers)
                     THEN [ stopped EXCEPT ![i + 1].worker = take_offline(@) ]
                     ELSE stopped
                /\ th' = [ th EXCEPT ![t].idx = i + 1, ![t].timeout = left ]
                /\ UNCHANGED chan_lock
        /\ UNCHANGED << global_config, source_workers, limbo >>

\* self.source_workers.remove_all(countdown.time_left), outside the lock
stop_channels_remove_all(t, kill) ==
    LET r == th[t] IN
    /\ At(t, "stc_remove_all")
    /\ source_workers' = remove_all(source_workers)
    /\ limbo' = Dropped(source_workers, Gone(source_workers, remove_all(source_workers)),
                        kill, th, limbo)
    /\ th' = [ th EXCEPT ![t] = StopChannelsExit(r) ]
    /\ UNCHANGED << global_config, channel_workers, chan_lock >>

(* --------------------------- specifications --------------------------- *)

StartRequests(T, N) ==
    \E t \in T : (\E n \in N : rpc_start_channel(t, n)) \/ rpc_start_channels(t)

StopRequests(T, N, K) ==
    \E t \in T : \E n \in N :
        rpc_stop_channel(t, n) \/ (\E k \in K : rpc_kill_channel(t, n, k))

BatchRequests(T) == \E t \in T : rpc_stop_channels(t)

ShutdownRequests(T) == \E t \in T : rpc_stop(t)

\* The operator sends SIGHUP while no request is being served.
SignalBetweenRequests == (\A t \in Threads : th[t].pc = "idle") /\ handle_sighup

StartSteps ==
    \E t \in Executors :
        \/ start_channel_update(t)
        \/ start_channel_insert(t)
        \/ start_channel_start(t)
        \/ start_channel_sources(t)
        \/ start_channel_wait_active(t)

StopSteps == \E t \in Threads : \E kill \in BOOLEAN : rm_channel_stop(t, kill)

BatchStopSteps ==
    \E t \in Executors :
        \/ stop_channels(t)
        \/ \E left \in 0 .. DefaultShutdownTimeout : stop_channels_stop(t, left)
        \/ \E kill \in BOOLEAN : stop_channels_remove_all(t, kill)

Housekeeping == \E kill \in BOOLEAN : service_actions(kill)

Processes ==
    \/ \E l \in Places :
          \/ ChannelBooted(l)
          \/ ChannelCycles(l)
          \/ ChannelFaults(l)
          \/ ChannelShutsDown(l)
    \/ \E k \in SourceKeys :
          \/ SourceCompletes(k)
          \/ \E holders \in SUBSET Executors : SourceInLimboCompletes(k, holders)

Handover == \E t \in Executors : Return(t)

\* The administrator sends one request at a time.
OneAtATime == { t \in Threads : \A u \in Threads : t <= u }

\* A second client, whose request is served by another thread.
SecondClient == { t \in Threads : \A u \in Threads : u <= t }

Next ==
    \/ Handover
    \/ StartRequests(OneAtATime, StartNames)
    \/ StopRequests(OneAtATime, StopNames, KillTimeouts)
    \/ BatchRequests(OneAtATime)
    \/ ShutdownRequests(OneAtATime)
    \/ SignalBetweenRequests
    \/ StartSteps
    \/ StopSteps
    \/ BatchStopSteps
    \/ Housekeeping
    \/ Processes

Spec == Init /\ [][Next]_vars

\* Two administrators start and stop the same channel at the same time.
RaceNext ==
    \/ Handover
    \/ \E t \in Threads : rpc_start_channel(t, "alpha") \/ rpc_stop_channel(t, "alpha")
    \/ StartSteps
    \/ StopSteps
    \/ Housekeeping
    \/ Processes

SpecRace == Init /\ [][RaceNext]_vars

(* ------------------------------ properties ---------------------------- *)

\* Thread t begins an RPC with this step.
Begins(t, op) == th[t].pc = "idle" /\ th'[t].pc # "idle" /\ th'[t].op = op

\* C1: rpc_start_channel(name), called while name is a key of the channel
\* registry, returns "ERROR, channel <name> is running" and leaves the channel
\* registry, the source registry (refcounts included) and every worker process
\* as they were.
C1_DoubleStartRejected ==
    [][ \A t \in Threads : \A n \in StartNames :
          (Begins(t, "start_channel") /\ th'[t].name = n /\ Has(channel_workers, n))
            => /\ th'[t].pc = "done"
               /\ ~th'[t].raised
               /\ th'[t].reply = "ERROR, channel " \o n \o " is running"
               /\ UNCHANGED << channel_workers, source_workers, limbo >> ]_vars

\* A second start of the running channel alpha has been answered.
C1_Witness ==
    \E t \in Threads :
        /\ th[t].pc = "done" /\ th[t].op = "start_channel" /\ th[t].name = "alpha"
        /\ th[t].reply = "ERROR, channel alpha is running"
        /\ is_alive(Get(channel_workers, "alpha"))

\* C2: start_channel never inserts a worker under a key that is already
\* present in the channel registry (so that no channel worker is replaced in
\* the registry and left running out of its reach).
C2_NoInsertUnderPresentKey ==
    [][ \A t \in Threads :
          (th[t].pc = "sc_insert" /\ th'[t].pc = "sc_start")
            => ~Has(channel_workers, th[t].chan) ]_vars

\* No administrative operation is in flight.
Quiescent == chan_lock = {} /\ \A t \in Executors : th[t].pc = "idle"

\* The registered channels whose configuration references source identity k.
Referencing(k) ==
    { n \in RegisteredNames(channel_workers) :
        \E c \in ConfigNames :
            /\ ChannelName(ChannelConfigs[c], c) = n
            /\ k \in Range(ChannelConfigs[c].sources) }

\* C3 (I1): between the administrative operations, the refcount of every
\* source worker in the source registry is the set of the registered channels
\* whose configuration references its identity.
C3_I1_Refcount ==
    Quiescent =>
        \A k \in SourceKeys :
            source_workers[k].status # "none"
                => source_workers[k].use = Referencing(k)

\* C4 (I2): a source worker whose process is alive is in the source registry
\* with a non-empty refcount.
C4_I2_AliveImpliesRefcount ==
    /\ \A k \in SourceKeys : is_alive(source_workers[k]) => source_workers[k].use # {}
    /\ \A o \in limbo : ~is_alive(o)

\* The source identities the configuration of channel n declares.
Declared(n) ==
    UNION { Range(ChannelConfigs[c].sources) :
            c \in { d \in ConfigNames : ChannelName(ChannelConfigs[d], d) = n } }

\* Registered channels m and n subscribe to the one worker the source
\* registry holds for identity k.
ShareOneWorker(m, n, k) ==
    /\ source_workers[k].status # "none"
    /\ k \in Get(channel_workers, m).keys
    /\ k \in Get(channel_workers, n).keys

EndsRm(t) == th[t].pc = "rm_join" /\ th'[t].pc = "done"

\* C6: rm_channel stops a source and takes it out of the source registry
\* exactly when the removed channel was the last one in its refcount; a source
\* another channel still uses stays in the registry, its process untouched.
C6_RmStopsSourceWhenLast ==
    [][ \A t \in Threads : EndsRm(t) =>
          \A k \in SourceKeys :
            LET s == source_workers[k]
                mine == k \in Get(channel_workers, th[t].name).keys
            IN  s.status # "none" =>
                  IF mine /\ s.use \ { th[t].name } = {}
                  THEN source_workers'[k].status = "none"
                  ELSE /\ source_workers'[k].status = s.status
                       /\ source_workers'[k].state = s.state
                       /\ source_workers'[k].use =
                            IF mine THEN s.use \ { th[t].name } ELSE s.use ]_vars

\* stop_channel alpha has left srcA running for beta.
C6_Witness ==
    \E t \in Threads :
        /\ th[t].pc = "done" /\ th[t].op = "stop_channel" /\ th[t].name = "alpha"
        /\ th[t].rc = "Clean"
        /\ is_alive(Get(channel_workers, "beta"))
        /\ is_alive(source_workers["srcA"])
        /\ source_workers["srcA"].use = { "beta" }

\* C7 (I3): no source worker's process is running while a channel that
\* subscribes to its queue is still in BOOT.
C7_I3_ListenerFirst ==
    \A k \in SourceKeys :
        is_alive(source_workers[k]) =>
            \A i \in 1 .. Len(channel_workers) :
                k \in channel_workers[i].worker.keys
                    => channel_workers[i].worker.state # "BOOT"

\* C8: rm_channel returns NotFound iff the name is not in the channel
\* registry, and then changes nothing; else it snapshots the routing keys,
\* and after the join returns Terminated iff the worker still has no exit
\* code and Clean iff it has one, the entry is removed, and prune is called
\* with the snapshot.
C8_RmChannelOutcomes ==
    [][ \A t \in Threads :
          /\ (Begins(t, "stop_channel") \/ Begins(t, "kill_channel")) =>
               LET name == th'[t].name IN
               IF Has(channel_workers, name)
               THEN /\ th'[t].pc = "rm_join"
                    /\ th'[t].prune = Get(channel_workers, name).keys
                    /\ Has(channel_workers', name)
               ELSE /\ th'[t].pc = "done" /\ th'[t].rc = "NotFound"
                    /\ UNCHANGED << channel_workers, source_workers, limbo >>
          /\ EndsRm(t) =>
               LET worker == Get(channel_workers, th[t].name) IN
               /\ th'[t].rc = IF worker.status \in { "new", "alive" }
                              THEN "Terminated" ELSE "Clean"
               /\ is_alive(worker) => th[t].timeout # None
               /\ ~Has(channel_workers', th[t].name)
               /\ source_workers' = prune(source_workers, th[t].name, th[t].prune) ]_vars

\* kill_channel has terminated a worker that did not exit within the timeout.
C8_Witness ==
    \E t \in Threads :
        /\ th[t].pc = "done" /\ th[t].op = "kill_channel" /\ th[t].name = "alpha"
        /\ th[t].rc = "Terminated" /\ th[t].timeout = 2
        /\ ~Has(channel_workers, "alpha")

\* The reply to rm_channel's result rc for channel n and timeout T.
Reply(n, rc, T) ==
    CASE rc = "NotFound" -> "No channel found with the name " \o n \o "."
      [] rc = "Clean" -> "Channel " \o n \o " stopped cleanly."
      [] rc = "Terminated" /\ T = 0 -> "Channel " \o n \o " has been killed."
      [] rc = "Terminated" /\ T = 1 ->
           "Channel " \o n \o " has been killed due to shutdown timeout (1 second)."
      [] rc = "Terminated" /\ T > 1 ->
           "Channel " \o n \o " has been killed due to shutdown timeout ("
              \o ToString(T) \o " seconds)."

\* C9: rpc_stop_channel passes a nil timeout, rpc_kill_channel the given one
\* or, when none is given, the configured shutdown_timeout (default 10); the
\* reply names the outcome, with "seconds" exactly when the timeout is above 1.
C9_TimeoutsAndReplies ==
    \A t \in Threads :
        LET r == th[t] IN
        /\ r.op = "stop_channel" => r.timeout = None
        /\ r.op = "kill_channel" =>
             r.timeout = IF r.given # None THEN r.given
                         ELSE IF "shutdown_timeout" \in DOMAIN global_config
                         THEN global_config.shutdown_timeout
                         ELSE 10
        /\ (r.pc = "done" /\ r.op \in { "stop_channel", "kill_channel" } /\ ~r.raised)
             => r.reply = Reply(r.name, r.rc, r.timeout)

\* kill_channel without a timeout, no shutdown_timeout configured: the worker
\* was killed after the default 10 seconds.
C9_Witness ==
    \E t \in Threads :
        /\ th[t].pc = "done" /\ th[t].op = "kill_channel" /\ th[t].given = None
        /\ th[t].reply
             = "Channel alpha has been killed due to shutdown timeout (10 seconds)."

\* C10: when the workflow validator rejects the configuration, start_channel
\* ends without a channel worker built or inserted: the channel registry is as
\* it was, and every registered channel and every source process keeps running.
C10_RejectedLeavesRegistry ==
    [][ \A t \in Threads :
          (/\ th[t].pc = "sc_update" /\ th'[t] # th[t]
           /\ ~ChannelConfigs[th[t].name].valid)
            => /\ th'[t].pc \in { "sc_update", "done" }
               /\ th'[t].worker = NoWorker /\ ~th'[t].mine
               /\ th[t].op = "start_channel" => th'[t].raised
               /\ UNCHANGED << channel_workers, limbo >>
               /\ \A k \in SourceKeys :
                    source_workers[k].status # "none"
                      => /\ source_workers'[k].status = source_workers[k].status
                         /\ source_workers'[k].state = source_workers[k].state ]_vars

\* start_channel gamma has failed while alpha runs on its source.
C10_Witness ==
    \E t \in Threads :
        /\ th[t].pc = "done" /\ th[t].op = "start_channel" /\ th[t].name = "gamma"
        /\ th[t].raised
        /\ is_alive(Get(channel_workers, "alpha"))
        /\ is_alive(source_workers["srcA"])
        /\ ~Has(channel_workers, "gamma")

\* C11: the administrative RPCs never raise: rpc_start_channel,
\* rpc_stop_channel and rpc_kill_channel (both through rpc_rm_channel) end by
\* returning a string, whatever fails inside the operation.
C11_RpcsNeverRaise ==
    \A t \in Threads :
        (th[t].pc = "done"
         /\ th[t].op \in { "start_channel", "stop_channel", "kill_channel" })
            => ~th[t].raised

\* One client starts channels; rpc_stop, sent by another one, can arrive
\* while a start_channel is in flight.
StopNext ==
    \/ Handover
    \/ \E t \in OneAtATime :
          rpc_start_channel(t, "alpha") \/ rpc_start_channel(t, "b_cfg")
    \/ \E t \in SecondClient : rpc_stop(t)
    \/ StartSteps
    \/ BatchStopSteps
    \/ Housekeeping
    \/ Processes

SpecStop == Init /\ [][StopNext]_vars

\* No channel worker and no source worker process is running.
NothingAlive ==
    /\ \A i \in 1 .. Len(channel_workers) : ~is_alive(channel_workers[i].worker)
    /\ \A t \in Executors : ~is_alive(th[t].worker)
    /\ \A k \in SourceKeys : ~is_alive(source_workers[k])
    /\ \A o \in limbo : ~is_alive(o)

\* C12 (L2): when rpc_stop has returned "OK", the channel registry and the
\* source registry are empty and no worker process the supervisor started is
\* still alive.
C12_L2_ShutdownComplete ==
    \A t \in Threads :
        (th[t].pc = "done" /\ th[t].op = "stop" /\ th[t].reply = "OK")
            => /\ channel_workers = << >>
               /\ \A k \in SourceKeys : source_workers[k].status = "none"
               /\ NothingAlive


\* The channel names the loaded configurations declare, and those of them
\* whose workflow the validator accepts.
DeclaredNames == { ChannelName(ChannelConfigs[c], c) : c \in ConfigNames }
AcceptedNames ==
    { ChannelName(ChannelConfigs[c], c) :
      c \in { d \in ConfigNames : validated_workflow(ChannelConfigs[d]) } }

\* The SIGHUP handler, sent while no request was in flight, has completed.
Reloaded == th[MainThread].pc = "done" /\ th[MainThread].op = "sighup"

\* C13 (L3), as stated: after the SIGHUP handler has completed, the names in
\* the channel registry are the channel names the configuration declares.
C13_L3_AllDeclared ==
    Reloaded => RegisteredNames(channel_workers) = DeclaredNames

\* C13 (L3), amended: after the SIGHUP handler has completed, the names in the
\* channel registry are the declared channel names whose configuration
\* start_channel could build a worker for (the workflow validates), whatever
\* was registered before; a configuration that fails is logged and skipped.
C13_L3_AllAccepted ==
    Reloaded => RegisteredNames(channel_workers) = AcceptedNames

C13_Witness ==
    /\ Reloaded
    /\ RegisteredNames(channel_workers) = { "alpha", "beta" }
    /\ \E i \in 1 .. Len(channel_workers) : channel_workers[i].worker.state = "ERROR"


\* The source registry after one pass of service_actions from this state.
Polled == DetachFrom(source_workers, channel_workers, 1)

\* C14 (L1): detaching a channel from its sources twice gives the registry a
\* single detach gives; a second pass of service_actions over the same
\* registry, and the prune of rm_channel for a channel service_actions has
\* already detached, change nothing more; and a detach never removes (stops) a
\* source that has another channel in its refcount.
C14_L1_IdempotentDetach ==
    /\ \A ch \in StartNames, keys \in SUBSET SourceKeys :
           LET once == detach_channel(source_workers, ch, keys) IN
           /\ detach_channel(once, ch, keys) = once
           /\ prune(once, ch, keys) = once
           /\ \A k \in SourceKeys :
                  source_workers[k].use \ { ch } # {} =>
                      /\ once[k].status = source_workers[k].status
                      /\ once[k].state = source_workers[k].state
    /\ DetachFrom(Polled, channel_workers, 1) = Polled
    /\ \A i \in 1 .. Len(channel_workers) :
           ~probably_running(channel_workers[i].worker.state) =>
               prune(Polled, channel_workers[i].name,
                     sources_to_prune(channel_workers[i].worker)) = Polled

\* service_actions has detached a failed channel whose source a running
\* channel still uses.
C14_Witness ==
    \E i, j \in 1 .. Len(channel_workers) :
        \E k \in SourceKeys :
            /\ ~probably_running(channel_workers[i].worker.state)
            /\ probably_running(channel_workers[j].worker.state)
            /\ k \in channel_workers[i].worker.keys
            /\ k \in channel_workers[j].worker.keys
            /\ source_workers[k].use = { channel_workers[j].name }
            /\ is_alive(source_workers[k])
            /\ Polled = source_workers


(* ---------------------------- block_while ----------------------------- *)

\* The state names and timeouts rpc_block_while is called with.
BlockStates == { "BOOT", "ACTIVE", "RUNNING" }
BlockTimeouts == { None, 0, 2 }

\* f"No channels in {state} state." for a member of the State enumeration.
block_reply(state) == "No channels in State." \o state \o " state."

\* A faulty variant: block_while waits on every worker of the snapshot.
waits_on_any(tm) == TRUE

\* if tm.is_alive(): the workers block_while waits on
waits_on(tm) == is_alive(tm)

\* rpc_block_while up to the first wait of block_while: an unknown state name
\* is answered at once, and so is an empty snapshot of the channel registry.
rpc_block_while(t, state_str, timeout) ==
    LET r == [ Idle EXCEPT !.op = "block_while", !.name = state_str,
                           !.given = timeout, !.timeout = timeout ]
    IN  /\ Accepted(t)
        /\ th' = [ th EXCEPT ![t] =
                     IF state_str \notin States
                     THEN Finish(r, state_str \o " is not a valid channel state.")
                     ELSE IF channel_workers = << >>
                     THEN Finish(r, "No active channels.")
                     ELSE [ r EXCEPT !.pc = "bw_wait",
                                     !.todo = [ i \in 1 .. Len(channel_workers) |->
                                                  channel_workers[i].name ] ] ]
        /\ UNCHANGED << global_config, channel_workers, chan_lock, source_workers,
                        limbo >>

\* One iteration of the loop of block_while: a worker that is not alive is
\* passed over; tm.wait_while(state, countdown.time_left) returns when the
\* worker is not in `state`, or when the time left has run out, with `left`
\* of the countdown remaining.  After the last worker the message is returned.
block_while_wait(t, left) ==
    LET r == th[t]
        tm == Get(channel_workers, Head(r.todo))
    IN  /\ At(t, "bw_wait")
        /\ IF r.todo = << >>
           THEN /\ left = r.timeout
                /\ th' = [ th EXCEPT ![t] = Finish(r, block_reply(r.name)) ]
           ELSE /\ IF ~waits_on(tm) \/ r.timeout = None
                   THEN left = r.timeout
                   ELSE left \in 0 .. r.timeout
                /\ (waits_on(tm) /\ tm.state = r.name) => (r.timeout # None /\ left = 0)
                /\ th' = [ th EXCEPT ![t] = [ r EXCEPT !.todo = Tail(r.todo),
                                                       !.timeout = left ] ]
        /\ UNCHANGED << global_config, channel_workers, chan_lock, source_workers,
                        limbo >>

BlockRequests(T) ==
    \E t \in T : \E s \in BlockStates : \E k \in BlockTimeouts :
        rpc_block_while(t, s, k)

BlockSteps == \E t \in Threads : \E left \in KillTimeouts : block_while_wait(t, left)

\* One client starts channels, another one waits on them with block_while.
BlockNext ==
    \/ Handover
    \/ \E t \in OneAtATime :
          rpc_start_channel(t, "alpha") \/ rpc_start_channel(t, "b_cfg")
    \/ BlockRequests(SecondClient)
    \/ StartSteps
    \/ BlockSteps
    \/ Housekeeping
    \/ \E l \in Places : ChannelBooted(l) \/ ChannelCycles(l) \/ ChannelFaults(l)
    \/ \E k \in SourceKeys :
          \/ SourceCompletes(k)
          \/ \E holders \in SUBSET Executors : SourceInLimboCompletes(k, holders)

SpecBlock == Init /\ [][BlockNext]_vars


\* C15: rpc_block_while answers an unknown state name with "<name> is not a
\* valid channel state." and an empty channel registry with "No active
\* channels.", both without waiting; otherwise block_while goes through the
\* snapshot, passes over a worker that is not alive without spending any of
\* the budget, gets past an alive worker that is still in the state only when
\* the one shared countdown has run out, never blocks once the budget is 0,
\* and ends by returning "No channels in <state> state."; it never raises.
C15_BlockWhile ==
    [][ \A t \in Threads :
          LET r == th[t]
              n == th'[t]
              tm == Get(channel_workers, Head(r.todo))
          IN
          /\ Begins(t, "block_while") =>
               IF n.name \notin States
               THEN /\ n.pc = "done" /\ ~n.raised
                    /\ n.reply = n.name \o " is not a valid channel state."
               ELSE IF channel_workers = << >>
               THEN n.pc = "done" /\ ~n.raised /\ n.reply = "No active channels."
               ELSE /\ n.pc = "bw_wait" /\ n.timeout = n.given
                    /\ n.todo = [ i \in 1 .. Len(channel_workers) |->
                                    channel_workers[i].name ]
          /\ (r.pc = "bw_wait" /\ n # r /\ r.todo # << >>) =>
               /\ n.pc = "bw_wait" /\ n.todo = Tail(r.todo)
               /\ ~is_alive(tm) => n.timeout = r.timeout
               /\ (is_alive(tm) /\ tm.state = r.name) =>
                      (r.timeout # None /\ n.timeout = 0)
               /\ IF r.timeout = None THEN n.timeout = None
                  ELSE n.timeout \in 0 .. r.timeout
          /\ (r.pc = "bw_wait" /\ n.pc = "done") =>
               /\ r.todo = << >> /\ ~n.raised
               /\ n.reply = "No channels in State." \o r.name \o " state."
          /\ (r.pc = "bw_wait" /\ r.timeout = 0 /\ NoneDone) =>
               ENABLED block_while_wait(t, 0)
      ]_vars

\* block_while with a budget of 2 has gone through a snapshot of two workers:
\* the first is not alive, the second is alive and still in the state, and
\* none of the budget is left.
C15_Witness ==
    \E t \in Threads :
        /\ th[t].pc = "bw_wait" /\ th[t].given = 2 /\ th[t].timeout = 0
        /\ th[t].todo = << >>
        /\ Len(channel_workers) = 2
        /\ ~is_alive(channel_workers[1].worker)
        /\ is_alive(channel_workers[2].worker)
        /\ channel_workers[2].worker.state = th[t].name


\* C16: when stop_worker, called by stop_channels, is through with a worker
\* whose task manager was still in BOOT (never started, or taken offline
\* during its start-up), the worker has seen no exit code within the budget:
\* the outcome is Terminated and the process has been killed.
C16_BootWorkersTerminated ==
    [][ \A t \in Executors :
          (th[t].pc = "stc_join" /\ th'[t].pc = "stc_join"
           /\ th'[t].idx = th[t].idx + 1) =>
              LET w == channel_workers[th[t].idx].worker
                  v == channel_workers'[th[t].idx].worker
              IN  (~w.booted /\ w.state \in { "BOOT", "OFFLINE" }) =>
                      /\ StopState(w) = "Terminated"
                      /\ v.status = "killed"
      ]_vars

\* stop_channels has terminated alpha, which it took offline in BOOT, and is
\* about to go on.
C16_Witness ==
    \E t \in Executors :
        /\ th[t].pc = "stc_join" /\ th[t].idx = 2
        /\ Len(channel_workers) >= 1
        /\ channel_workers[1].worker.status = "killed"
        /\ channel_workers[1].worker.state = "OFFLINE"
        /\ ~channel_workers[1].worker.booted


\* C17: rm_channel on a registered channel whose state cell is ERROR does not
\* answer NotFound: it goes on to stop_worker, returns Clean or Terminated,
\* the channel is no longer in the channel registry, and no source in the
\* source registry has the channel in its refcount.
C17_ErrorChannelRemoved ==
    [][ \A t \in Threads :
          LET name == th'[t].name
              worker == Get(channel_workers, name)
          IN
          /\ ((Begins(t, "stop_channel") \/ Begins(t, "kill_channel"))
              /\ Has(channel_workers, name) /\ worker.state = "ERROR")
                => th'[t].pc = "rm_join" /\ th'[t].rc # "NotFound"
          /\ (EndsRm(t) /\ worker.state = "ERROR") =>
               /\ ~th'[t].raised
               /\ th'[t].rc \in { "Clean", "Terminated" }
               /\ ~Has(channel_workers', name)
               /\ \A k \in SourceKeys : name \notin source_workers'[k].use
      ]_vars

\* rm_channel has found beta, in ERROR and not yet detached by
\* service_actions, and is in stop_worker; alpha shares a source with it.
C17_Witness ==
    \E t \in Threads :
        /\ th[t].pc = "rm_join" /\ th[t].op = "stop_channel" /\ th[t].name = "beta"
        /\ Get(channel_workers, "beta").state = "ERROR"
        /\ th[t].prune = { "srcA", "srcB" }
        /\ source_workers["srcA"].use = { "alpha", "beta" }
        /\ source_workers["srcB"].use = { "beta" }


\* Thread t is inside start_channels (called by rpc_start_channels).
InBatch(r) == r.op = "start_channels" /\ r.pc \notin { "idle", "done" }

\* The configurations the batch of r has started on so far, the current one
\* last.
Attempted(r) == SubSeq(get_channels, 1, Len(get_channels) - Len(r.todo))

\* C18: start_channels takes the configurations one at a time and in order:
\* the thread is inside the start_channel of one configuration only, it moves
\* to the next one only when that start_channel has returned or raised, and
\* whether it raised or not the next configuration is begun; the batch ends
\* only after the last configuration, and then every channel whose
\* configuration did not fail is registered with its process started.
C18_BatchSequentialNoAbort ==
    [][ \A t \in Threads :
          LET r == th[t]
              n == th'[t]
          IN
          /\ Begins(t, "start_channels") =>
               /\ n.pc = "sc_update"
               /\ n.name = Head(get_channels) /\ n.todo = Tail(get_channels)
          /\ (InBatch(r) /\ n # r) =>
               \/ /\ InBatch(n)
                  /\ n.name = r.name /\ n.todo = r.todo
               \/ /\ InBatch(n)
                  /\ r.todo # << >>
                  /\ n.pc = "sc_update"
                  /\ n.name = Head(r.todo) /\ n.todo = Tail(r.todo)
                  /\ r.pc \in { "sc_update", "sc_sources", "sc_wait_active" }
               \/ /\ n.pc = "done" /\ ~n.raised /\ n.reply = "OK"
                  /\ r.todo = << >>
                  /\ r.pc \in { "sc_update", "sc_sources", "sc_wait_active" }
                  /\ \A c \in AcceptedNames :
                         /\ Has(channel_workers', c)
                         /\ Get(channel_workers', c).status # "new"
      ]_vars

\* The batch is in the start of the last configuration, b_cfg: alpha was
\* started before it and gamma, between them, failed.
C18_Witness ==
    \E t \in Threads :
        /\ InBatch(th[t]) /\ th[t].pc = "sc_wait_active"
        /\ Attempted(th[t]) = << "alpha", "gamma", "b_cfg" >>
        /\ RegisteredNames(channel_workers) = { "alpha", "beta" }
        /\ \A i \in 1 .. Len(channel_workers) :
               channel_workers[i].worker.status = "alive"


\* The step stops source k and takes it out of the source registry.
SourceStopped(k) ==
    source_workers[k].status # "none" /\ source_workers'[k].status = "none"

\* stop_worker is through with channel worker w: a worker that was alive has
\* been taken offline, and the process has exited or been terminated.
OfflineAndEnded(w) ==
    /\ is_alive(w) => w.state = "OFFLINE"
    /\ AfterStop(w).status \in { "exited", "killed" }

\* C19: in rm_channel and in stop_channels the channels go offline before
\* their sources.  rm_channel stops a source only in its prune, when
\* stop_worker is through with the channel's worker (taken offline, and exited
\* or terminated); stop_channels stops no source while it goes through the
\* channel workers, leaves that loop only when every channel worker has
\* exited or been terminated, and stops the sources in remove_all after it.
C19_ChannelsBeforeSources ==
    [][ \A t \in Executors :
          LET r == th[t] IN
          (th'[t] # r) =>
            /\ (r.pc = "rm_join" /\ \E k \in SourceKeys : SourceStopped(k)) =>
                 /\ OfflineAndEnded(Get(channel_workers, r.name))
                 /\ \A k \in SourceKeys : SourceStopped(k) => k \in r.prune
            /\ r.pc \in { "stop_channels", "stc_join" } =>
                 /\ source_workers' = source_workers
                 /\ th'[t].pc = "stc_remove_all" =>
                      \A i \in 1 .. Len(channel_workers) :
                          channel_workers[i].worker.status \in { "exited", "killed" }
            /\ (r.op \in { "stop_channels", "stop", "sighup" }
                /\ \E k \in SourceKeys : SourceStopped(k)) =>
                 r.pc = "stc_remove_all"
      ]_vars

\* stop_channels has been through the workers of alpha and beta, has cleared
\* the channel registry and is about to remove their sources, which are still
\* running.
C19_Witness ==
    \E t \in Executors :
        /\ th[t].pc = "stc_remove_all"
        /\ channel_workers = << >>
        /\ { "alpha", "beta" } \subseteq source_workers["srcA"].use
        /\ source_workers["srcB"].use = { "beta" }
        /\ \A k \in SourceKeys : is_alive(source_workers[k])


(* ----------------------------- the locks ------------------------------ *)

\* A faulty variant: start_channel keeps the source registry locked from
\* update until it has inserted the worker.
lock_events_update_held(r, n) ==
    CASE r.pc = "idle" /\ n.op = "start_channel" -> << "chan+", "chan-" >>
      [] r.pc = "idle" /\ n.op \in { "stop_channel", "kill_channel" } ->
           IF n.pc = "rm_join" THEN << "chan+" >> ELSE << "chan+", "chan-" >>
      [] r.pc = "idle" /\ n.op = "stop_channels" -> << "chan+" >>
      [] r.pc = "stop_channels" -> << "chan+" >>
      [] r.pc = "sc_update" /\ n.pc = "sc_insert" -> << "src+" >>
      [] r.pc = "sc_update" /\ n.pc # "sc_insert" -> << "src+", "src-" >>
      [] r.pc = "sc_insert" -> << "chan+", "chan-", "src-" >>
      [] r.pc = "rm_join" -> << "src+", "src-", "chan-" >>
      [] r.pc = "stc_join" /\ n.pc = "stc_remove_all" -> << "chan-" >>
      [] r.pc = "stc_remove_all" -> << "src+", "src-" >>
      [] OTHER -> << >>

\* The acquisitions ("+") and releases ("-") of the channel registry mutex
\* (channel_workers.access()) and of the source registry mutex (inside
\* update, prune and remove_all) in the step that takes a thread from r to n.
lock_events(r, n) ==
    CASE r.pc = "idle" /\ n.op = "start_channel" -> << "chan+", "chan-" >>
      [] r.pc = "idle" /\ n.op \in { "stop_channel", "kill_channel" } ->
           IF n.pc = "rm_join" THEN << "chan+" >> ELSE << "chan+", "chan-" >>
      [] r.pc = "idle" /\ n.op = "stop_channels" -> << "chan+" >>
      [] r.pc = "stop_channels" -> << "chan+" >>
      [] r.pc = "sc_update" -> << "src+", "src-" >>
      [] r.pc = "sc_insert" -> << "chan+", "chan-" >>
      [] r.pc = "rm_join" -> << "src+", "src-", "chan-" >>
      [] r.pc = "stc_join" /\ n.pc = "stc_remove_all" -> << "chan-" >>
      [] r.pc = "stc_remove_all" -> << "src+", "src-" >>
      [] OTHER -> << >>

\* service_actions: detach_channel is called inside the channel registry scope.
service_events == << "chan+", "src+", "src-", "chan-" >>

\* The thread of record r has moved on to n.
Moves(r, n) == n.pc # r.pc \/ n.name # r.name \/ n.todo # r.todo

\* A thread that holds the channel mutex iff `chan` and the source mutex iff
\* `src` goes through the events ev: it never takes a mutex it holds, never
\* releases one it does not hold, and never takes the channel mutex while it
\* holds the source mutex.
RECURSIVE Scan(_, _, _)
Scan(ev, chan, src) ==
    IF ev = << >> THEN [ ok |-> TRUE, chan |-> chan, src |-> src ]
    ELSE LET e == Head(ev) IN
         IF \/ e = "chan+" /\ (chan \/ src)
            \/ e = "chan-" /\ ~chan
            \/ e = "src+" /\ src
            \/ e = "src-" /\ ~src
         THEN [ ok |-> FALSE, chan |-> chan, src |-> src ]
         ELSE Scan(Tail(ev),
                   IF e = "chan+" THEN TRUE ELSE IF e = "chan-" THEN FALSE ELSE chan,
                   IF e = "src+" THEN TRUE ELSE IF e = "src-" THEN FALSE ELSE src)

\* C20: lock ordering.  In every step of start_channel, rm_channel and
\* stop_channels, and in service_actions, the channel registry mutex is never
\* acquired by a thread that holds the source registry mutex: a thread that
\* holds both took the channel mutex first.  The source mutex is not held
\* from one step to the next, and the channel mutex the thread holds after
\* the step is the one the operation's scopes leave it with.
C20_LockOrdering ==
    [][ /\ \A t \in Executors :
             Moves(th[t], th'[t]) =>
                 LET s == Scan(lock_events(th[t], th'[t]), t \in chan_lock, FALSE)
                 IN  /\ s.ok
                     /\ ~s.src
                     /\ s.chan = (t \in chan_lock')
                     /\ (lock_events(th[t], th'[t]) # << >>
                         /\ Head(lock_events(th[t], th'[t])) = "chan+")
                            => chan_lock = {}
        /\ ((\A t \in Executors : ~Moves(th[t], th'[t]))
            /\ \E k \in SourceKeys : SourceStopped(k)) =>
                 /\ chan_lock = {} /\ chan_lock' = {}
                 /\ Scan(service_events, FALSE, FALSE).ok
      ]_vars

\* rm_channel has pruned beta's sources inside the channel registry scope and
\* has released the mutex; alpha goes on using the source they shared.
C20_Witness ==
    \E t \in Threads :
        /\ th[t].pc = "done" /\ th[t].op = "kill_channel" /\ th[t].name = "beta"
        /\ th[t].rc = "Terminated"
        /\ chan_lock = {}
        /\ source_workers["srcB"].status = "none"
        /\ source_workers["srcA"].use = { "alpha" }


\* A thread that holds the channel mutex iff `chan` goes through the events
\* ev: at some point it holds the channel mutex and the source mutex at once.
RECURSIVE BothHeld(_, _, _)
BothHeld(ev, chan, src) ==
    IF chan /\ src THEN TRUE
    ELSE IF ev = << >> THEN FALSE
    ELSE LET e == Head(ev) IN
         BothHeld(Tail(ev),
                  IF e = "chan+" THEN TRUE ELSE IF e = "chan-" THEN FALSE ELSE chan,
                  IF e = "src+" THEN TRUE ELSE IF e = "src-" THEN FALSE ELSE src)

\* The step is a pass of service_actions that detached a channel.
Detaches ==
    /\ \A t \in Executors : ~Moves(th[t], th'[t])
    /\ \E k \in SourceKeys : source_workers'[k].use # source_workers[k].use

\* C21: the channel registry mutex and the source registry mutex are held at
\* once only in rm_channel (its prune): no step of start_channel or
\* stop_channels, and no pass of service_actions, performs a source registry
\* operation inside the channel registry scope.
C21_BothOnlyInRmChannel ==
    [][ /\ \A t \in Executors :
             (Moves(th[t], th'[t])
              /\ BothHeld(lock_events(th[t], th'[t]), t \in chan_lock, FALSE))
                 => th[t].pc = "rm_join"
        /\ Detaches => ~BothHeld(service_events, FALSE, FALSE)
      ]_vars


\* The thread of record r is inside start_channel, between the update of the
\* source registry and the return.
InStartChannel(r) == r.pc \in { "sc_insert", "sc_start", "sc_sources", "sc_wait_active" }

\* The step from r to n enters or runs a channel registry scope (a read or a
\* mutation of the channel registry under its mutex).
InRegistryScope(r, n) ==
    Moves(r, n) /\ (lock_events(r, n) # << >> \/ r.pc = "stc_join")
                /\ r.pc \notin { "sc_update", "stc_remove_all" }

\* C22: while one thread is inside start_channel, between its update of the
\* source registry and its return, no other thread takes a step of
\* rm_channel, stop_channels or start_channel in a channel registry scope,
\* and service_actions does not run.
C22_StartSerialized ==
    [][ \A t \in Executors :
          InStartChannel(th[t]) =>
              /\ \A u \in Executors \ { t } : ~InRegistryScope(th[u], th'[u])
              /\ ~Detaches
      ]_vars


\* The thread of record r is inside stop_channels.
InStopChannels(r) == r.pc \in { "stc_join", "stc_remove_all" }

\* The budget of one shutdown: the configured shutdown_timeout, or 10.
Budget ==
    IF "shutdown_timeout" \in DOMAIN global_config
    THEN global_config.shutdown_timeout ELSE 10

\* C23: stop_channels shares one budget of shutdown_timeout (default 10)
\* among its workers: the time left that is handed to the next stop_worker
\* is between 0 and the budget, it never grows from one worker to the next,
\* so that what has been consumed never exceeds the budget, and remove_all
\* is handed what is left when the last worker is stopped and the map cleared.
C23_SharedCountdown ==
    [][ \A t \in Executors :
          LET r == th[t]
              n == th'[t]
          IN
          /\ (~InStopChannels(r) /\ InStopChannels(n)) => n.timeout = Budget
          /\ InStopChannels(n) => n.timeout \in 0 .. Budget
          /\ (InStopChannels(r) /\ InStopChannels(n)) => n.timeout <= r.timeout
          /\ (r.pc = "stc_join" /\ n.pc = "stc_remove_all") =>
               /\ n.timeout = r.timeout
               /\ channel_workers' = << >>
          /\ (r.pc = "stc_remove_all" /\ Moves(r, n) /\ n.pc = "done") =>
               n.timeout = r.timeout
      ]_vars

\* With a budget of 3, stopping the channel workers has consumed 2: remove_all
\* is about to be called with the 1 that is left, the sources still running.
C23_Witness ==
    \E t \in Executors :
        /\ th[t].pc = "stc_remove_all" /\ th[t].timeout = 1
        /\ Budget = 3
        /\ channel_workers = << >>
        /\ \A k \in SourceKeys : is_alive(source_workers[k])


\* The process status, after the step, of the source worker thread t's handle
\* for key k refers to.
StatusAfter(t, k) ==
    IF ~InLimbo(t, k) THEN source_workers'[k].status
    ELSE IF \E x \in limbo' : x.key = k /\ t \in x.holders
    THEN (CHOOSE x \in limbo' : x.key = k /\ t \in x.holders).status
    ELSE LimboOf(t, k).status

\* Thread t takes one iteration of the source start loop of start_channel.
StartsSource(t) ==
    /\ th[t].pc = "sc_sources" /\ th[t].srcs # << >>
    /\ (th'[t].pc # "sc_sources" \/ th'[t].srcs # th[t].srcs)

\* What the iteration leaves alone: the channel registry, and every source
\* but the current one.
OthersUntouched(t, k) ==
    /\ channel_workers' = channel_workers
    /\ \A j \in SourceKeys \ { k } : source_workers'[j] = source_workers[j]
    /\ \A o \in limbo : t \notin o.holders => o \in limbo'
    /\ \A o \in limbo : (t \in o.holders /\ o.key # k) =>
           \A x \in limbo' : (x.key = o.key /\ t \in x.holders) => x.status = o.status

\* C24: in the source start loop of start_channel a source that is alive is
\* left alone; a source that is not alive and has exit code 0 is not started
\* and start_channel fails, the channel worker already inserted and started
\* staying in the channel registry and the sources later in the iteration
\* not being started; any other source that is not alive is started.
C24_SourceStartLoop ==
    [][ \A t \in Executors :
          StartsSource(t) =>
              LET r == th[t]
                  k == Head(r.srcs)
                  p == SourceOf(t, k)
              IN  /\ OthersUntouched(t, k)
                  /\ is_alive(p) =>
                       /\ StatusAfter(t, k) = "alive"
                       /\ th'[t].srcs = Tail(r.srcs)
                  /\ (~is_alive(p) /\ p.status = "exit0") =>
                       /\ th'[t] = StartChannelExit(r, TRUE)
                       /\ source_workers'[k] = source_workers[k]
                       /\ r.mine => Has(channel_workers', r.chan)
                  /\ (~is_alive(p) /\ p.status # "exit0") =>
                       /\ StatusAfter(t, k) = "alive"
                       /\ th'[t].srcs = Tail(r.srcs)
      ]_vars


\* The registered channels service_actions has to detach from source k: those
\* that subscribe to k and whose state is none of BOOT, ACTIVE, STEADY.
ToDetach(k) ==
    { channel_workers[i].name :
        i \in { j \in 1 .. Len(channel_workers) :
                  /\ channel_workers[j].worker.state \notin { "BOOT", "ACTIVE", "STEADY" }
                  /\ k \in channel_workers[j].worker.keys } }

\* C25: a pass of service_actions takes out of each source's refcount exactly
\* the registered channels that subscribe to it and are not in BOOT, ACTIVE or
\* STEADY, a source whose refcount becomes empty leaving the source registry;
\* it changes nothing else: no entry of the channel registry is added or
\* removed, no channel worker is stopped, and a channel that is probably
\* running stays in every refcount it was in.
C25_ServiceActionsFrame ==
    [][ Detaches =>
          /\ UNCHANGED << channel_workers, chan_lock, th, global_config >>
          /\ \A k \in SourceKeys :
                LET left == source_workers[k].use \ ToDetach(k) IN
                /\ source_workers'[k].use = left
                /\ source_workers'[k].status =
                     IF left = {} THEN "none" ELSE source_workers[k].status
                /\ \A i \in 1 .. Len(channel_workers) :
                      (channel_workers[i].worker.state \in { "BOOT", "ACTIVE", "STEADY" }
                       /\ channel_workers[i].name \in source_workers[k].use)
                         => channel_workers[i].name \in source_workers'[k].use
      ]_vars

\* alpha has failed and service_actions has detached it: its source is gone
\* from the source registry, its entry is still in the channel registry.
C25_Witness ==
    /\ \A t \in Executors : th[t].pc = "idle"
    /\ RegisteredNames(channel_workers) = { "alpha" }
    /\ Get(channel_workers, "alpha").state = "ERROR"
    /\ \A k \in SourceKeys : source_workers[k].status = "none"


\* C26: rpc_stop shuts down in a fixed order.  The accept loop is halted
\* first: from the moment rpc_stop runs no further request is accepted and
\* no poll of service_actions runs.  Then stop_channels runs to its end (the
\* channel workers, then remove_all on the sources); only after it the reaper
\* is stopped, then the data space closed, then the metrics endpoint exited,
\* that one exactly when no_webserver is not set, then the logging queue
\* stopped; "OK" is returned after all of them.
C26_StopOrder ==
    [][ \A t \in Threads :
          LET r == th[t]
              n == th'[t]
          IN
          /\ Begins(t, "stop") => n.closed = << "shutdown" >> /\ n.pc = "stop_channels"
          /\ r.op = "stop" =>
               /\ \A u \in Threads \ { t } : th[u].pc = "idle" => th'[u].pc = "idle"
               /\ ~Detaches
          /\ (n.op = "stop" /\ n.pc # "done") => n.closed = << "shutdown" >>
          /\ (r.op = "stop" /\ r.pc # "done" /\ n.pc = "done") =>
               /\ r.pc = "stc_remove_all"
               /\ n.reply = "OK" /\ ~n.raised
               /\ n.closed =
                    IF "no_webserver" \in DOMAIN global_config /\ global_config.no_webserver
                    THEN << "shutdown", "stop_channels", "reaper_stop",
                            "dataspace.close", "stop_queue_logger" >>
                    ELSE << "shutdown", "stop_channels", "reaper_stop",
                            "dataspace.close", "cherrypy.engine.exit",
                            "stop_queue_logger" >>
      ]_vars

\* rpc_stop has returned "OK" with the webserver disabled: the metrics
\* endpoint was not exited, everything else was shut down.
C26_Witness ==
    \E t \in Threads :
        /\ th[t].pc = "done" /\ th[t].op = "stop" /\ th[t].reply = "OK"
        /\ global_config.logger = "cfg" /\ "no_webserver" \in DOMAIN global_config
        /\ Len(th[t].closed) = 5
        /\ channel_workers = << >>


\* C27: rpc_stop_channel, which passes a nil timeout, never ends in the
\* Terminated outcome: whenever it has finished, rm_channel returned NotFound
\* or Clean and a reply was built, also for a channel that a concurrent
\* start_channel has inserted into the registry and not started yet.
C27_StopChannelNeverTerminated ==
    \A t \in Threads :
        (th[t].pc = "done" /\ th[t].op = "stop_channel")
          => /\ th[t].timeout = None
             /\ th[t].rc \in { "NotFound", "Clean" }
             /\ ~th[t].raised


(* ------------------ a signal during service_actions ------------------- *)

\* service_actions up to its loop: the serving thread has taken the channel
\* registry lock ("with self.channel_workers.access() as workers").
service_actions_enter ==
    /\ Polling
    /\ chan_lock = {}
    /\ chan_lock' = { MainThread }
    /\ th' = [ th EXCEPT ![MainThread] =
                 [ Idle EXCEPT !.op = "service_actions", !.pc = "sa_scan" ] ]
    /\ UNCHANGED << global_config, channel_workers, source_workers, limbo >>

\* The loop of service_actions and the end of its scope: the lock is released
\* and serve_forever polls again.
service_actions_scan(kill) ==
    LET after == DetachFrom(source_workers, channel_workers, 1) IN
    /\ At(MainThread, "sa_scan")
    /\ source_workers' = after
    /\ limbo' = Dropped(source_workers, Gone(source_workers, after), kill, th, limbo)
    /\ chan_lock' = {}
    /\ th' = [ th EXCEPT ![MainThread] = Idle ]
    /\ UNCHANGED << global_config, channel_workers >>

\* SIGHUP arrives while the serving thread is inside service_actions: Python
\* runs the handler on that thread, on top of the frame that holds the lock;
\* the frame resumes only when the handler returns.
handle_sighup_in_service_actions ==
    /\ At(MainThread, "sa_scan")
    /\ Serving
    /\ th' = [ th EXCEPT ![MainThread] =
                 [ Idle EXCEPT !.op = "sighup", !.pc = "stop_channels" ] ]
    /\ UNCHANGED << global_config, channel_workers, chan_lock, source_workers,
                    limbo >>

\* An administrator stops a channel that a reload has started while the
\* serving thread polls, and SIGHUP may arrive at any point of the serving
\* thread.
SignalNext ==
    \/ Handover
    \/ \E t \in SecondClient : rpc_stop_channel(t, "alpha")
    \/ handle_sighup
    \/ handle_sighup_in_service_actions
    \/ service_actions_enter
    \/ \E kill \in BOOLEAN : service_actions_scan(kill)
    \/ StartSteps
    \/ StopSteps
    \/ BatchStopSteps
    \/ \E l \in Places :
          \/ ChannelBooted(l)
          \/ ChannelCycles(l)
          \/ ChannelFaults(l)
          \/ ChannelShutsDown(l)
    \/ \E k \in SourceKeys : SourceCompletes(k)

SpecSignal == Init /\ [][SignalNext]_vars

\* The SIGHUP handler is at the entrance of stop_channels and the channel
\* registry lock is held by the frame the handler interrupted.
SelfBlocked ==
    /\ th[MainThread].op = "sighup"
    /\ th[MainThread].pc = "stop_channels"
    /\ MainThread \in chan_lock

\* C28: the SIGHUP handler always runs to completion.  Wherever the signal
\* reaches the serving thread, the handler's stop_channels never waits for a
\* channel registry lock that cannot be released before the handler returns:
\* the lock it waits for is free or held by an RPC thread.
C28_HandlerNotSelfBlocked == ~SelfBlocked

\* Once the handler waits for the lock its own thread holds, it waits forever.
SelfBlockedForGood == [][ SelfBlocked => SelfBlocked' ]_vars


(* ------------------------ the workers gauge --------------------------- *)

\* The change the step that takes a request from r to n makes to the gauge
\* de_workers_total, which the supervisor only ever writes:
\* WORKERS_COUNT.inc() once start_channel has constructed its ChannelWorker,
\* before the insertion; WORKERS_COUNT.dec() in rpc_rm_channel, after
\* "assert rc == StopState.Clean".  Neither the Terminated branches of
\* rpc_rm_channel nor stop_channels, rpc_stop_channels, rpc_stop and
\* handle_sighup touch the gauge.
WORKERS_COUNT_change(r, n) ==
    IF r.pc = "sc_update" /\ n.pc = "sc_insert" THEN 1
    ELSE IF /\ r.pc = "rm_join" /\ n.pc = "done"
            /\ n.rc = "Clean" /\ ~n.raised
    THEN -1
    ELSE 0

\* The entries the channel registry gains with this step.
Grown == Len(channel_workers') - Len(channel_workers)

\* C29: the gauge de_workers_total follows the size of the channel registry.
\* A worker start_channel has constructed is counted once and becomes one
\* new entry with the insertion that follows; every other step of an
\* operation changes the gauge by exactly the number of entries it adds to
\* or removes from the registry, whether a removal ended Clean or Terminated
\* and whether it was made by rm_channel or by stop_channels.
C29_GaugeFollowsRegistry ==
    [][ \A t \in Executors :
          Moves(th[t], th'[t]) =>
            IF th[t].pc = "sc_update"
            THEN Grown = 0
            ELSE IF th[t].pc = "sc_insert"
            THEN Grown = 1 /\ WORKERS_COUNT_change(th[t], th'[t]) = 0
            ELSE WORKERS_COUNT_change(th[t], th'[t]) = Grown ]_vars

\* C29, the part the code keeps: the gauge is raised once for every worker
\* start_channel inserts, lowered once for every removal by rm_channel that
\* ended Clean, and changed by nothing else.
GaugeAsCoded ==
    [][ \A t \in Executors :
          Moves(th[t], th'[t]) =>
            LET d == WORKERS_COUNT_change(th[t], th'[t]) IN
            /\ th'[t].pc = "sc_insert" => d = 1
            /\ (th[t].pc = "rm_join" /\ th'[t].rc = "Clean") => d = -1 /\ Grown = -1
            /\ (th[t].pc = "rm_join" /\ th'[t].rc = "Terminated") => d = 0 /\ Grown = -1
            /\ th[t].pc \in { "stop_channels", "stc_join", "stc_remove_all" } => d = 0 ]_vars

====
